---------------------------- MODULE Spec2Model ----------------------------
(***************************************************************************)
(* One run of comparer-cli (src/comparer-cli.py): the click group callback,*)
(* the dispatch to one subcommand, the single blocking HTTP call made by   *)
(* ApiClient, and the rendering of the reply or of the error.              *)
(*                                                                         *)
(* Python values are modelled as follows.                                  *)
(*   - Optional[T]: None is <<>>, a present value v is <<v>>.              *)
(*   - text that the program inspects (model fields, the --search term):   *)
(*     a sequence of one-character strings, so that str.lower() and the    *)
(*     `in` substring test are computed character by character.            *)
(*   - dict: a function whose DOMAIN is the set of keys; a dict whose      *)
(*     iteration order is observable (get_providers, stats) is a sequence  *)
(*     of <<key, value>> pairs in insertion order.                         *)
(*   - list of dict objects: a sequence; an element's position is the      *)
(*     object's identity (two positions never alias one object, as         *)
(*     response.json() builds a fresh dict per array element).             *)
(***************************************************************************)
EXTENDS Integers, Sequences, FiniteSets, TLC

VARIABLES
    API_KEY,     \* module global, line 16: os.getenv('COMPARER_API_KEY')
    BASE_URL,    \* module global, line 17, overwritten by --server
    argv,        \* the parsed command line of this run
    pc,          \* "cli" | "command" | "waiting" | "exited"
    requests,    \* HTTP requests issued so far, in order
    response,    \* None, or <<the reply to the request>>
    models,      \* the handler's local `models` (list_models, sample_spec)
    twomodels,   \* sample_spec's local: positions in `models` of the sample
    stdout,      \* what click.echo / print wrote, in order
    stderr,      \* the error report of the run, if any
    exit_code    \* process exit status once pc = "exited"

vars == <<API_KEY, BASE_URL, argv, pc, requests, response, models,
          twomodels, stdout, stderr, exit_code>>

-----------------------------------------------------------------------------
(* Bounds of the model.                                                    *)

\* longest model list the service returns
MaxModels == 3
\* most options given on one `search` command line
MaxFlags == 3

-----------------------------------------------------------------------------
(* Python values.                                                          *)

None == <<>>

Some(v) == <<v>>

\* Python truthiness of an Optional[str] held as a TLA+ string
Truthy(opt) == opt # None /\ opt[1] # ""

\* dict.update(other)
DictUpdate(d, other) ==
    [k \in DOMAIN d \cup DOMAIN other |->
        IF k \in DOMAIN other THEN other[k] ELSE d[k]]

\* dict.get(key, default)
DictGet(d, key, default) == IF key \in DOMAIN d THEN d[key] ELSE default

\* str.lower() on one character
LowerChar(c) ==
    CASE c = "A" -> "a"
      [] c = "B" -> "b"
      [] OTHER   -> c

\* str.lower()
Lower(s) == [i \in 1..Len(s) |-> LowerChar(s[i])]

\* Python `sub in s` for str
StrIn(sub, s) ==
    \E k \in 0..(Len(s) - Len(sub)) :
        \A i \in 1..Len(sub) : s[k + i] = sub[i]

NA == <<"N", "/", "A">>

-----------------------------------------------------------------------------
(* What the remote service may answer.  The service is opaque; the sets    *)
(* below are the replies the run is checked against.                       *)

Model(p, f, n) == [provider |-> p, model_family |-> f, model_name |-> n]

\* The records of /api/models/list.  Every record carries 'provider', the
\* field get_providers indexes unconditionally (m['provider']); the other
\* two fields, read only through .get(), may be absent.

ModelRecords ==
    { Model(<<"A", "b">>, <<"b">>, <<"a">>),
      Model(<<"a", "B">>, <<"A", "b">>, <<"A", "B">>),
      Model(<<"B">>, <<"B", "A">>, <<"A", "B">>),
      \* a record that already carries token counts
      DictUpdate(Model(<<"B">>, <<"b">>, <<"b">>),
                 [input_tokens |-> 7, output_tokens |-> 7]),
      \* records lacking model_family or model_name
      [provider |-> <<"a">>],
      [provider |-> <<"b">>, model_name |-> <<"a", "B">>] }

ModelLists == UNION { [1..n -> ModelRecords] : n \in 0..MaxModels }

StatsReplies ==
    { <<>>,
      << <<"openai", 2>> >>,
      << <<"openai", 1>>, <<"anthropic", 3>> >> }

JsonReplies == {"result-1", "result-2"}

\* requests.RequestException raised by session.get/post (no reply) or by
\* response.raise_for_status() (non-2xx reply)
TransportFailures == {"ConnectionError", "Timeout", "HTTPError"}

Failed(cause) == [ok |-> FALSE, cause |-> cause, body |-> None]

Replied(body) == [ok |-> TRUE, cause |-> "", body |-> body]

Replies(bodies) ==
    { Failed(c) : c \in TransportFailures } \cup { Replied(b) : b \in bodies }

-----------------------------------------------------------------------------
(* The command line.                                                       *)

SearchTerms ==
    { <<>>, <<"a">>, <<"A">>, <<"a", "b">>, <<"B", "a">>, <<"b", "b">> }

ServerOptions == { None, Some(""), Some("http://localhost:8000") }

SearchOptions ==
    { "provider", "min_context", "max_context", "min_output_tokens",
      "max_output_tokens", "tools", "multilingual", "audio", "vision",
      "reasoning", "fine_tuning", "streaming" }

OptionValues(o) ==
    CASE o = "provider" -> { <<>>, <<"A", "b">> }
      [] o \in { "min_context", "max_context", "min_output_tokens",
                 "max_output_tokens" } -> { 0, 4096 }
      [] OTHER -> BOOLEAN

\* every way of giving at most MaxFlags of the options `opts`
RECURSIVE FlagSets(_)
FlagSets(opts) ==
    IF opts = {} THEN { <<>> }
    ELSE LET o == CHOOSE x \in opts : TRUE
             rest == FlagSets(opts \ {o})
         IN  rest \cup
             { (o :> v) @@ f :
                 f \in { g \in rest : Cardinality(DOMAIN g) < MaxFlags },
                 v \in OptionValues(o) }

SpecPayloads == {"spec-1", "spec-2"}

\* the state of the path given to compare/calculate
SpecFiles ==
    { [kind |-> k, data |-> ""] :
        k \in {"missing", "vanished", "unreadable", "invalid_json"} }
    \cup { [kind |-> "json", data |-> d] : d \in SpecPayloads }

NoFile == [kind |-> "none", data |-> ""]

CommandLine(server, command, search, flags, spec, target) ==
    [server |-> server, command |-> command, search |-> search,
     flags |-> flags, spec |-> spec, target |-> target]

CommandLines ==
    { CommandLine(s, "list-models", t, <<>>, NoFile, "") :
        s \in ServerOptions, t \in SearchTerms }
    \cup { CommandLine(s, c, <<>>, <<>>, NoFile, "") :
        s \in ServerOptions, c \in {"list-providers", "stats"} }
    \cup { CommandLine(s, "search", <<>>, f, NoFile, "") :
        s \in ServerOptions, f \in FlagSets(SearchOptions) }
    \cup { CommandLine(s, c, <<>>, <<>>, f, "") :
        s \in ServerOptions, c \in {"compare", "calculate"}, f \in SpecFiles }
    \cup { CommandLine(s, "sample-spec", <<>>, <<>>, NoFile, t) :
        s \in ServerOptions, t \in {"compare", "calculate"} }

-----------------------------------------------------------------------------
(* Output and termination.                                                 *)

Line(text) == [kind |-> "line", text |-> text]

LineWith(text, arg) == [kind |-> "line", text |-> text, arg |-> arg]

Table(headers, rows) == [kind |-> "table", headers |-> headers, rows |-> rows]

JsonDump(value, indent) == [kind |-> "json", value |-> value, indent |-> indent]

\* click.ClickException: click prints "Error: <message>" and exits 1
ClickException(message, cause) ==
    /\ stderr' = <<[kind |-> "ClickException", message |-> message,
                    cause |-> cause]>>
    /\ exit_code' = 1
    /\ pc' = "exited"

\* click.UsageError raised while parsing the subcommand's arguments: exit 2
UsageError(message) ==
    /\ stderr' = <<[kind |-> "UsageError", message |-> message,
                    cause |-> ""]>>
    /\ exit_code' = 2
    /\ pc' = "exited"

\* an exception no handler catches: the interpreter prints a traceback, exit 1
Uncaught(exception) ==
    /\ stderr' = <<[kind |-> "Traceback", message |-> exception,
                    cause |-> ""]>>
    /\ exit_code' = 1
    /\ pc' = "exited"

\* the handler returns normally
Return ==
    /\ stderr' = stderr
    /\ exit_code' = 0
    /\ pc' = "exited"

-----------------------------------------------------------------------------
(* ApiClient.                                                              *)

Request(method, path, json) ==
    [method |-> method, url |-> <<BASE_URL, path>>, json |-> json,
     headers |-> [X_API_Key |-> API_KEY[1]]]

\* the session.get / session.post call: the request leaves, the run blocks
Send(req) ==
    /\ requests' = Append(requests, req)
    /\ pc' = "waiting"

get_models_request == Request("GET", "/api/models/list", None)

get_stats_request == Request("GET", "/api/models/stats", None)

\* get_providers' loop body: counts[provider] += 1 on a defaultdict(int)
CountProvider(counts, provider) ==
    IF \E i \in 1..Len(counts) : counts[i][1] = provider
    THEN [i \in 1..Len(counts) |->
            IF counts[i][1] = provider
            THEN <<provider, counts[i][2] + 1>> ELSE counts[i]]
    ELSE Append(counts, <<provider, 1>>)

\* get_providers' loop over the fetched models
RECURSIVE get_providers(_)
get_providers(ms) ==
    IF ms = <<>> THEN <<>>
    ELSE CountProvider(get_providers(SubSeq(ms, 1, Len(ms) - 1)),
                       ms[Len(ms)].provider)

\* click's conversion of the search options to keyword arguments
\* (every option has default=None)
SearchKwargs(flags) ==
    [o \in SearchOptions |-> IF o \in DOMAIN flags THEN Some(flags[o]) ELSE None]

\* variant of search_payload: the output-token bounds are exchanged
search_payload_swapped(kw) ==
    [metadata |-> [agent_id |-> "cli", task_id |-> "search"],
     provider |-> kw["provider"],
     min_context |-> kw["min_context"],
     max_context |-> kw["max_context"],
     min_output_tokens |-> kw["max_output_tokens"],
     max_output_tokens |-> kw["min_output_tokens"],
     tools |-> kw["tools"],
     multilingual |-> kw["multilingual"],
     audio |-> kw["audio"],
     vision |-> kw["vision"],
     reasoning |-> kw["reasoning"],
     fine_tuning |-> kw["fine_tuning"],
     realtime_streaming |-> kw["streaming"]]

\* search_models' payload
search_payload(kw) ==
    [metadata |-> [agent_id |-> "cli", task_id |-> "search"],
     provider |-> kw["provider"],
     min_context |-> kw["min_context"],
     max_context |-> kw["max_context"],
     min_output_tokens |-> kw["min_output_tokens"],
     max_output_tokens |-> kw["max_output_tokens"],
     tools |-> kw["tools"],
     multilingual |-> kw["multilingual"],
     audio |-> kw["audio"],
     vision |-> kw["vision"],
     reasoning |-> kw["reasoning"],
     fine_tuning |-> kw["fine_tuning"],
     realtime_streaming |-> kw["streaming"]]

search_models_request(kw) ==
    Request("POST", "/api/agents/search", Some(search_payload(kw)))

compare_models_request(data) ==
    Request("POST", "/api/agents/compare", Some(data))

calculate_price_request(data) ==
    Request("POST", "/api/agents/calculate", Some(data))

-----------------------------------------------------------------------------
(* The run.                                                                *)

Init ==
    /\ API_KEY \in { None, Some(""), Some("secret") }
    /\ BASE_URL = "https://agentcomparer.com"
    /\ argv \in CommandLines
    /\ pc = "cli"
    /\ requests = <<>>
    /\ response = None
    /\ models = <<>>
    /\ twomodels = <<>>
    /\ stdout = <<>>
    /\ stderr = <<>>
    /\ exit_code = 0

\* variant of KeyMissing: `if API_KEY is None`
KeyMissing_IsNone == API_KEY = None

\* `if not API_KEY`
KeyMissing == ~Truthy(API_KEY)

\* the group callback, run before the subcommand's arguments are parsed
cli ==
    /\ pc = "cli"
    /\ IF KeyMissing
       THEN /\ ClickException("COMPARER_API_KEY environment variable not set", "")
            /\ UNCHANGED BASE_URL
       ELSE /\ BASE_URL' = IF Truthy(argv.server) THEN argv.server[1] ELSE BASE_URL
            /\ pc' = "command"
            /\ UNCHANGED <<stderr, exit_code>>
    /\ UNCHANGED <<API_KEY, argv, requests, response, models, twomodels, stdout>>

\* variant of search_matches: the fields are compared without .lower()
search_matches_unlowered(search, model) ==
    \/ StrIn(search, DictGet(model, "provider", <<>>))
    \/ StrIn(search, DictGet(model, "model_family", <<>>))
    \/ StrIn(search, DictGet(model, "model_name", <<>>))

\* list_models' filter condition for one model, `search` already lowered
search_matches(search, model) ==
    \/ StrIn(search, Lower(DictGet(model, "provider", <<>>)))
    \/ StrIn(search, Lower(DictGet(model, "model_family", <<>>)))
    \/ StrIn(search, Lower(DictGet(model, "model_name", <<>>)))

\* list_models' filtering of the fetched list
filter_models(search, fetched) ==
    IF search # <<>>
    THEN SelectSeq(fetched, LAMBDA model : search_matches(Lower(search), model))
    ELSE fetched

\* list_models' table rows
models_table(ms) ==
    [i \in 1..Len(ms) |->
        << DictGet(ms[i], "provider", NA),
           DictGet(ms[i], "model_family", NA),
           DictGet(ms[i], "model_name", NA) >>]

\* variant of list_models_output: the `if not models` branch is missing
list_models_output_always_table(search, ms) ==
    << Table(<<"Provider", "Model Family", "Model Name">>, models_table(ms)),
       LineWith("Total models", Len(ms)) >>

\* what list_models echoes for the retained models
list_models_output(search, ms) ==
    IF ms = <<>>
    THEN IF search # <<>>
         THEN << LineWith("No models found matching search", Lower(search)) >>
         ELSE << Line("No models available") >>
    ELSE << Table(<<"Provider", "Model Family", "Model Name">>, models_table(ms)),
            LineWith("Total models", Len(ms)) >>

\* list_models up to the blocking GET
list_models_call ==
    /\ pc = "command" /\ argv.command = "list-models"
    /\ Send(get_models_request)
    /\ UNCHANGED <<API_KEY, BASE_URL, argv, response, models, twomodels,
                   stdout, stderr, exit_code>>

\* list_models from the reply on
list_models ==
    /\ pc = "waiting" /\ argv.command = "list-models"
    /\ \E r \in Replies(ModelLists) :
        /\ response' = Some(r)
        /\ IF ~r.ok
           THEN /\ ClickException("API request failed", r.cause)
                /\ UNCHANGED <<models, stdout>>
           ELSE /\ models' = filter_models(argv.search, r.body)
                /\ stdout' = list_models_output(argv.search, models')
                /\ Return
    /\ UNCHANGED <<API_KEY, BASE_URL, argv, requests, twomodels>>

\* list_providers' table rows: providers.items()
providers_table(providers) == providers

\* sum(providers.values())
RECURSIVE sum_counts(_)
sum_counts(providers) ==
    IF providers = <<>> THEN 0
    ELSE providers[1][2] + sum_counts(Tail(providers))

\* variant of list_providers_output: the total is the sum of the counts
list_providers_output_sum(providers) ==
    IF providers = <<>>
    THEN << Line("No providers available") >>
    ELSE << Table(<<"Provider", "Models">>, providers_table(providers)),
            LineWith("Total providers", sum_counts(providers)) >>

\* what list_providers echoes for the provider counts
list_providers_output(providers) ==
    IF providers = <<>>
    THEN << Line("No providers available") >>
    ELSE << Table(<<"Provider", "Models">>, providers_table(providers)),
            LineWith("Total providers", Len(providers)) >>

\* list_providers up to the blocking GET inside get_providers
list_providers_call ==
    /\ pc = "command" /\ argv.command = "list-providers"
    /\ Send(get_models_request)
    /\ UNCHANGED <<API_KEY, BASE_URL, argv, response, models, twomodels,
                   stdout, stderr, exit_code>>

\* list_providers from the reply on
list_providers ==
    /\ pc = "waiting" /\ argv.command = "list-providers"
    /\ \E r \in Replies(ModelLists) :
        /\ response' = Some(r)
        /\ IF ~r.ok
           THEN /\ ClickException("API request failed", r.cause)
                /\ UNCHANGED stdout
           ELSE /\ stdout' = list_providers_output(get_providers(r.body))
                /\ Return
    /\ UNCHANGED <<API_KEY, BASE_URL, argv, requests, models, twomodels>>

\* stats up to the blocking GET
stats_call ==
    /\ pc = "command" /\ argv.command = "stats"
    /\ Send(get_stats_request)
    /\ UNCHANGED <<API_KEY, BASE_URL, argv, response, models, twomodels,
                   stdout, stderr, exit_code>>

\* stats from the reply on
stats ==
    /\ pc = "waiting" /\ argv.command = "stats"
    /\ \E r \in Replies(StatsReplies) :
        /\ response' = Some(r)
        /\ IF ~r.ok
           THEN /\ ClickException("API request failed", r.cause)
                /\ UNCHANGED stdout
           ELSE /\ stdout' = << Table(<<"Provider", "Model Count">>, r.body) >>
                /\ Return
    /\ UNCHANGED <<API_KEY, BASE_URL, argv, requests, models, twomodels>>

\* search up to the blocking POST inside search_models
search_call ==
    /\ pc = "command" /\ argv.command = "search"
    /\ Send(search_models_request(SearchKwargs(argv.flags)))
    /\ UNCHANGED <<API_KEY, BASE_URL, argv, response, models, twomodels,
                   stdout, stderr, exit_code>>

\* search from the reply on
search ==
    /\ pc = "waiting" /\ argv.command = "search"
    /\ \E r \in Replies(JsonReplies) :
        /\ response' = Some(r)
        /\ IF ~r.ok
           THEN /\ ClickException("API request failed", r.cause)
                /\ UNCHANGED stdout
           ELSE /\ stdout' = << Line("Search Results:"), JsonDump(r.body, 2) >>
                /\ Return
    /\ UNCHANGED <<API_KEY, BASE_URL, argv, requests, models, twomodels>>

\* `with open(spec) as f: data = json.load(f)`: the exception raised, or the data
load_spec(file) ==
    CASE file.kind = "vanished"     -> [raised |-> "FileNotFoundError", data |-> ""]
      [] file.kind = "unreadable"   -> [raised |-> "OSError", data |-> ""]
      [] file.kind = "invalid_json" -> [raised |-> "JSONDecodeError", data |-> ""]
      [] OTHER                      -> [raised |-> "", data |-> file.data]

\* variant of InputFileErrors: `except FileNotFoundError`
InputFileErrors_OnlyNotFound == {"FileNotFoundError"}

\* `except (json.JSONDecodeError, FileNotFoundError)`
InputFileErrors == {"JSONDecodeError", "FileNotFoundError"}

\* compare/calculate from argument parsing up to the blocking POST:
\* click.Path(exists=True), then the file is read, then the request leaves
spec_command_call(loaded, request) ==
    IF argv.spec.kind = "missing"
    THEN /\ UsageError("Path does not exist")
         /\ UNCHANGED requests
    ELSE IF loaded.raised \in InputFileErrors
    THEN /\ ClickException("Error reading input file", loaded.raised)
         /\ UNCHANGED requests
    ELSE IF loaded.raised # ""
    THEN /\ Uncaught(loaded.raised)
         /\ UNCHANGED requests
    ELSE /\ Send(request)
         /\ UNCHANGED <<stderr, exit_code>>

\* compare/calculate from the reply on
spec_command_return(r) ==
    /\ response' = Some(r)
    /\ IF ~r.ok
       THEN /\ ClickException("API request failed", r.cause)
            /\ UNCHANGED stdout
       ELSE /\ stdout' = << JsonDump(r.body, 2) >>
            /\ Return

compare_call ==
    /\ pc = "command" /\ argv.command = "compare"
    /\ LET loaded == load_spec(argv.spec)
       IN  spec_command_call(loaded, compare_models_request(loaded.data))
    /\ UNCHANGED <<API_KEY, BASE_URL, argv, response, models, twomodels, stdout>>

compare ==
    /\ pc = "waiting" /\ argv.command = "compare"
    /\ \E r \in Replies(JsonReplies) : spec_command_return(r)
    /\ UNCHANGED <<API_KEY, BASE_URL, argv, requests, models, twomodels>>

calculate_call ==
    /\ pc = "command" /\ argv.command = "calculate"
    /\ LET loaded == load_spec(argv.spec)
       IN  spec_command_call(loaded, calculate_price_request(loaded.data))
    /\ UNCHANGED <<API_KEY, BASE_URL, argv, response, models, twomodels, stdout>>

calculate ==
    /\ pc = "waiting" /\ argv.command = "calculate"
    /\ \E r \in Replies(JsonReplies) : spec_command_return(r)
    /\ UNCHANGED <<API_KEY, BASE_URL, argv, requests, models, twomodels>>

\* variant of random_sample: sampling with replacement (random.choices)
random_sample_with_replacement(n) == { <<i, j>> : i \in 1..n, j \in 1..n }

\* random.sample(population, 2) over a population of n objects: the possible
\* results, as positions; empty when n < 2 (random.sample raises ValueError)
random_sample(n) == { <<i, j>> : i \in 1..n, j \in 1..n } \ { <<i, i>> : i \in 1..n }

\* twomodels[0].update(...) then twomodels[1].update(...), on the dict objects
\* that `models` holds at the sampled positions
inject_tokens(ms, two) ==
    LET first == [ms EXCEPT ![two[1]] =
                    DictUpdate(@, [input_tokens |-> 1000, output_tokens |-> 500])]
    IN  [first EXCEPT ![two[2]] =
            DictUpdate(@, [input_tokens |-> 2000, output_tokens |-> 1000])]

\* the list `twomodels` as printed: the objects at the sampled positions
sampled(ms, two) == << ms[two[1]], ms[two[2]] >>

\* the document sample_spec prints for `command`
sample_document(command, ms, two) ==
    IF command = "compare"
    THEN [models |-> sampled(ms, two),
          input_tokens |-> 1000,
          output_tokens |-> 500,
          metadata |-> [agent_id |-> "cli-sample", task_id |-> "comparison-test",
                        message_id |-> "msg123", thread_id |-> "thread456"]]
    ELSE [calculations |-> sampled(ms, two),
          metadata |-> [agent_id |-> "cli-sample", task_id |-> "calculation-test",
                        message_id |-> "msg789", thread_id |-> "thread012"]]

\* sample_spec up to the blocking GET
sample_spec_call ==
    /\ pc = "command" /\ argv.command = "sample-spec"
    /\ Send(get_models_request)
    /\ UNCHANGED <<API_KEY, BASE_URL, argv, response, models, twomodels,
                   stdout, stderr, exit_code>>

\* sample_spec from the reply on; no try/except surrounds its body
sample_spec ==
    /\ pc = "waiting" /\ argv.command = "sample-spec"
    /\ \E r \in Replies(ModelLists) :
        /\ response' = Some(r)
        /\ IF ~r.ok
           THEN /\ Uncaught(r.cause)
                /\ UNCHANGED <<models, twomodels, stdout>>
           ELSE IF random_sample(Len(r.body)) = {}
           THEN /\ Uncaught("ValueError")
                /\ models' = r.body
                /\ UNCHANGED <<twomodels, stdout>>
           ELSE \E two \in random_sample(Len(r.body)) :
                /\ twomodels' = two
                /\ models' = IF argv.target = "calculate"
                             THEN inject_tokens(r.body, two) ELSE r.body
                /\ stdout' = << JsonDump(sample_document(argv.target, models', two), 4) >>
                /\ Return
    /\ UNCHANGED <<API_KEY, BASE_URL, argv, requests>>

Next ==
    \/ cli
    \/ list_models_call
    \/ list_models
    \/ list_providers_call
    \/ list_providers
    \/ stats_call
    \/ stats
    \/ search_call
    \/ search
    \/ compare_call
    \/ compare
    \/ calculate_call
    \/ calculate
    \/ sample_spec_call
    \/ sample_spec

Spec == Init /\ [][Next]_vars

-----------------------------------------------------------------------------
(* Vocabulary of the properties, stated without the program's helpers.     *)

Exited == pc = "exited"

CredentialPresent == API_KEY # None /\ API_KEY # Some("")

\* the reply of the run's request, once it has arrived
Answered == response # None

TransportFailed == Answered /\ ~response[1].ok

Fetched == Answered /\ response[1].ok

\* the run ended in click's user-facing error with this message
UserError(message) ==
    /\ Exited
    /\ exit_code # 0
    /\ Len(stderr) = 1
    /\ stderr[1].kind = "ClickException"
    /\ stderr[1].message = message

\* the run ended in an exception that no handler caught
UnhandledException ==
    /\ Exited
    /\ Len(stderr) = 1
    /\ stderr[1].kind = "Traceback"

\* upper-/lower-case forms of one letter
CasePairs == { <<"a", "A">>, <<"b", "B">> }

SameLetter(c, d) == c = d \/ <<c, d>> \in CasePairs \/ <<d, c>> \in CasePairs

\* `term` occurs in `text` as a substring, letter case ignored
ContainsIgnoringCase(text, term) ==
    \E k \in 0..(Len(text) - Len(term)) :
        \A i \in 1..Len(term) : SameLetter(text[k + i], term[i])

\* the fields of `record`, among the three searched, that contain `term`
MatchingFields(record, term) ==
    { f \in {"provider", "model_family", "model_name"} \cap DOMAIN record :
        ContainsIgnoringCase(record[f], term) }

\* positions of the records of `list` that the term selects
SelectedPositions(list, term) ==
    IF term = <<>> THEN 1..Len(list)
    ELSE { i \in 1..Len(list) : MatchingFields(list[i], term) # {} }

\* the j-th smallest element of a set of positions
NthPosition(positions, j) ==
    CHOOSE i \in positions : Cardinality({ k \in positions : k <= i }) = j

\* `kept` is `list` restricted to `positions`, order preserved, each once
IsRestriction(kept, list, positions) ==
    /\ Len(kept) = Cardinality(positions)
    /\ \A j \in 1..Len(kept) : kept[j] = list[NthPosition(positions, j)]

RECURSIVE SumOfCounts(_)
SumOfCounts(rows) ==
    IF rows = <<>> THEN 0 ELSE rows[1][2] + SumOfCounts(Tail(rows))

\* name of a search option's field in the request body
WireName(o) == IF o = "streaming" THEN "realtime_streaming" ELSE o

-----------------------------------------------------------------------------
(* C1.  Every subcommand that contacts the service ends, when the HTTP     *)
(* request fails (network error or non-2xx reply), in the user-facing      *)
(* 'API request failed' error with a non-zero exit and no result output;   *)
(* none ends in an unhandled exception.                                    *)
(* sample_spec has no try/except, so this is violated there.               *)
C1_TransportFailureIsUserError ==
    (Exited /\ TransportFailed) =>
        /\ UserError("API request failed")
        /\ stderr[1].cause = response[1].cause
        /\ stdout = <<>>
        /\ ~UnhandledException

\* the same statement for the six handlers that do catch RequestException
C1_HandledOutsideSampleSpec ==
    (Exited /\ TransportFailed /\ argv.command # "sample-spec") =>
        /\ UserError("API request failed")
        /\ stderr[1].cause = response[1].cause
        /\ stdout = <<>>

-----------------------------------------------------------------------------
(* C2.  With the credential absent or empty, no HTTP request is ever       *)
(* issued and the subcommand body never runs: the run is either still in   *)
(* the group callback or has ended with a non-zero user-facing error, and  *)
(* nothing was printed.                                                    *)
C2_NoRequestWithoutCredential ==
    ~CredentialPresent =>
        /\ requests = <<>>
        /\ response = None
        /\ stdout = <<>>
        /\ pc \in {"cli", "exited"}
        /\ Exited => UserError("COMPARER_API_KEY environment variable not set")

\* an empty credential, a command whose own argument check would fail, and
\* the run over
C2_Witness ==
    /\ API_KEY = Some("")
    /\ argv.command = "compare"
    /\ argv.spec.kind = "missing"
    /\ Exited

-----------------------------------------------------------------------------
(* C3.  compare and calculate on a file whose contents are not valid JSON  *)
(* end (credential present) with the 'Error reading input file' error and  *)
(* a non-zero exit, and no HTTP request is issued in that run; a request   *)
(* of compare/calculate is issued only for a file that parsed, and carries *)
(* the parsed contents.                                                    *)
C3_InvalidJsonNoRequest ==
    argv.command \in {"compare", "calculate"} =>
        /\ argv.spec.kind = "invalid_json" =>
              /\ requests = <<>>
              /\ response = None
              /\ (Exited /\ CredentialPresent) =>
                    /\ UserError("Error reading input file")
                    /\ stdout = <<>>
        /\ requests # <<>> =>
              /\ argv.spec.kind = "json"
              /\ requests[1].method = "POST"
              /\ requests[1].json = Some(argv.spec.data)

C3_Witness ==
    /\ argv.command = "calculate"
    /\ argv.spec.kind = "invalid_json"
    /\ CredentialPresent
    /\ Exited

-----------------------------------------------------------------------------
(* C4.  list-models with a non-empty search term keeps exactly the fetched *)
(* records in which provider, model_family or model_name contains the term *)
(* as a case-insensitive substring: each such record once, whatever the    *)
(* number of matching fields, no other record, in the fetched order.       *)
C4_SearchKeepsExactlyMatches ==
    (argv.command = "list-models" /\ Exited /\ Fetched /\ argv.search # <<>>) =>
        IsRestriction(models, response[1].body,
                      SelectedPositions(response[1].body, argv.search))

\* three fetched records: the first matches in no field, the second only up
\* to letter case in one field, the third in all three fields
C4_Witness ==
    /\ argv.command = "list-models" /\ Exited /\ Fetched
    /\ argv.search = <<"a", "b">>
    /\ Len(response[1].body) = 3
    /\ MatchingFields(response[1].body[1], argv.search) = {}
    /\ MatchingFields(response[1].body[2], argv.search) = {"provider"}
    /\ response[1].body[2].provider = <<"A", "b">>
    /\ Cardinality(MatchingFields(response[1].body[3], argv.search)) = 3
    /\ Len(models) = 2

-----------------------------------------------------------------------------
(* C5.  Whatever list was fetched, a 'Total providers' value reported by  *)
(* list-providers is the number of distinct provider values of the list   *)
(* (not the number of records); a non-empty list gets the table and the    *)
(* total, and the table holds one row per distinct provider with the       *)
(* number of records carrying it, so the counts sum to the number of       *)
(* records.                                                                *)
C5_TotalIsDistinctProviders ==
    (argv.command = "list-providers" /\ Exited /\ Fetched) =>
        LET body == response[1].body
            distinct == { body[i].provider : i \in 1..Len(body) }
            Carrying(p) == { i \in 1..Len(body) : body[i].provider = p }
        IN  /\ exit_code = 0
            /\ \A k \in 1..Len(stdout) :
                 (stdout[k].kind = "line" /\ stdout[k].text = "Total providers")
                    => stdout[k].arg = Cardinality(distinct)
            /\ body # <<>> =>
                 /\ Len(stdout) = 2
                 /\ stdout[1].kind = "table"
                 /\ stdout[2].kind = "line"
                 /\ stdout[2].text = "Total providers"
                 /\ Len(stdout[1].rows) = Cardinality(distinct)
                 /\ \A p \in distinct :
                      \E k \in 1..Len(stdout[1].rows) :
                         stdout[1].rows[k] = <<p, Cardinality(Carrying(p))>>
                 /\ SumOfCounts(stdout[1].rows) = Len(body)

\* three records over two providers: the total is 2, the counts sum to 3
C5_Witness ==
    /\ argv.command = "list-providers" /\ Exited /\ Fetched /\ exit_code = 0
    /\ Len(response[1].body) = 3
    /\ Len(stdout) = 2
    /\ stdout[2].arg = 2

-----------------------------------------------------------------------------
(* C6.  The body POSTed by search holds the metadata envelope (agent_id    *)
(* 'cli', task_id 'search') and every criteria field; a field equals the   *)
(* value given on the command line and is null when its option is absent.  *)
(* With no option given every criteria field is null.                      *)
C6_SearchBodyMirrorsFlags ==
    (argv.command = "search" /\ requests # <<>>) =>
        LET body == requests[1].json[1]
        IN  /\ Len(requests) = 1
            /\ requests[1].method = "POST"
            /\ requests[1].url[2] = "/api/agents/search"
            /\ DOMAIN body = {"metadata"} \cup { WireName(o) : o \in SearchOptions }
            /\ body["metadata"] = [agent_id |-> "cli", task_id |-> "search"]
            /\ \A o \in SearchOptions :
                 body[WireName(o)] =
                    IF o \in DOMAIN argv.flags THEN <<argv.flags[o]>> ELSE <<>>

\* --no-tools, --min-output-tokens 0 and --streaming: falsy values that
\* must still be sent
C6_Witness ==
    /\ argv.command = "search" /\ requests # <<>>
    /\ DOMAIN argv.flags = {"tools", "min_output_tokens", "streaming"}
    /\ argv.flags["tools"] = FALSE
    /\ argv.flags["min_output_tokens"] = 0
    /\ argv.flags["streaming"] = TRUE

-----------------------------------------------------------------------------
(* C7.  sample-spec calculate on a fetched list of at least two records    *)
(* prints exactly two records, taken from two different entries of the     *)
(* list; the first carries input_tokens 1000 / output_tokens 500 and the   *)
(* second 2000 / 1000, whatever the entries held in those fields, and the  *)
(* other fields are those of the entries.                                  *)
C7_SampleCalculateInjectsTokens ==
    (argv.command = "sample-spec" /\ argv.target = "calculate" /\ Exited
        /\ Fetched /\ Len(response[1].body) >= 2) =>
        LET body == response[1].body
            calcs == stdout[1].value.calculations
            Rest(d) == [k \in DOMAIN d \ {"input_tokens", "output_tokens"} |-> d[k]]
        IN  /\ exit_code = 0
            /\ Len(stdout) = 1
            /\ Len(calcs) = 2
            /\ calcs[1]["input_tokens"] = 1000 /\ calcs[1]["output_tokens"] = 500
            /\ calcs[2]["input_tokens"] = 2000 /\ calcs[2]["output_tokens"] = 1000
            /\ twomodels \in (1..Len(body)) \X (1..Len(body))
            /\ twomodels[1] # twomodels[2]
            /\ \A k \in 1..2 : Rest(calcs[k]) = Rest(body[twomodels[k]])

\* the first sampled entry already carried other token counts, and the two
\* sampled entries hold equal records
C7_Witness ==
    /\ argv.command = "sample-spec" /\ argv.target = "calculate" /\ Exited
    /\ Fetched /\ Len(response[1].body) = 3
    /\ Len(twomodels) = 2
    /\ "input_tokens" \in DOMAIN response[1].body[twomodels[1]]
    /\ response[1].body[twomodels[1]]["input_tokens"] = 7
    /\ response[1].body[twomodels[1]] = response[1].body[twomodels[2]]
    /\ exit_code = 0

-----------------------------------------------------------------------------
(* C8.  sample-spec on a fetched list of fewer than two records fails      *)
(* gracefully: a user-facing error, no spec printed, no unhandled          *)
(* exception.                                                              *)
(* random.sample raises ValueError outside any handler, so this is         *)
(* violated.                                                               *)
C8_TooFewModelsIsUserError ==
    (argv.command = "sample-spec" /\ Exited /\ Fetched
        /\ Len(response[1].body) < 2) =>
        /\ exit_code # 0
        /\ stdout = <<>>
        /\ Len(stderr) = 1
        /\ stderr[1].kind = "ClickException"

\* what the code does there: no spec printed, non-zero exit, by traceback
C8_TooFewModelsIsTraceback ==
    (argv.command = "sample-spec" /\ Exited /\ Fetched
        /\ Len(response[1].body) < 2) =>
        /\ exit_code # 0
        /\ stdout = <<>>
        /\ UnhandledException
        /\ stderr[1].message = "ValueError"

-----------------------------------------------------------------------------
(* C9.  A run issues at most one HTTP request and never re-issues one:     *)
(* the step that receives the reply ends the run with no further request,  *)
(* in an error outcome with nothing printed when the request failed, and   *)
(* with the result rendered and a zero exit when it succeeded.             *)
(* The last part is violated where the handler raises after a successful   *)
(* reply: sample_spec on fewer than two models (C8).                       *)
C9_OneRequestThenRenderOrFail ==
    [][ /\ Len(requests') <= 1
        /\ (response = None /\ response' # None) =>
              /\ requests' = requests
              /\ pc' = "exited"
              /\ IF response'[1].ok
                 THEN exit_code' = 0 /\ stdout' # <<>>
                 ELSE exit_code' # 0 /\ stdout' = <<>>
      ]_vars

\* the part about requests alone: at most one, none after the reply, and
\* the reply ends the run
C9_OneRequestNoRetry ==
    [][ /\ Len(requests') <= 1
        /\ response # None => requests' = requests
        /\ (response = None /\ response' # None) =>
              /\ requests' = requests
              /\ pc' = "exited"
              /\ ~response'[1].ok => (exit_code' # 0 /\ stdout' = <<>>)
      ]_vars

-----------------------------------------------------------------------------
(* C10.  list-models prints, when no record is retained (none fetched, or  *)
(* none selected by the term), one 'no models' message and neither a table *)
(* nor a 'Total models' line; otherwise a table with one row per retained  *)
(* record, in order, followed by a 'Total models' line giving the number   *)
(* of rows.                                                                *)
C10_ListModelsOutput ==
    (argv.command = "list-models" /\ Exited /\ Fetched) =>
        LET body == response[1].body
            kept == SelectedPositions(body, argv.search)
            Cell(record, f) == IF f \in DOMAIN record THEN record[f] ELSE NA
        IN  IF kept = {}
            THEN /\ Len(stdout) = 1
                 /\ stdout[1].kind = "line"
                 /\ stdout[1].text =
                        IF argv.search # <<>>
                        THEN "No models found matching search"
                        ELSE "No models available"
            ELSE /\ Len(stdout) = 2
                 /\ stdout[1].kind = "table"
                 /\ stdout[1].headers = <<"Provider", "Model Family", "Model Name">>
                 /\ Len(stdout[1].rows) = Cardinality(kept)
                 /\ \A j \in 1..Len(stdout[1].rows) :
                      LET record == body[NthPosition(kept, j)]
                      IN  stdout[1].rows[j] =
                             << Cell(record, "provider"),
                                Cell(record, "model_family"),
                                Cell(record, "model_name") >>
                 /\ stdout[2] = LineWith("Total models", Len(stdout[1].rows))

\* records were fetched and the term selects none of them
C10_Witness ==
    /\ argv.command = "list-models" /\ Exited /\ Fetched
    /\ Len(response[1].body) = 2
    /\ argv.search = <<"b", "b">>
    /\ Len(stdout) = 1

\* two of three fetched records are listed
C10_WitnessTable ==
    /\ argv.command = "list-models" /\ Exited /\ Fetched
    /\ Len(response[1].body) = 3
    /\ Len(stdout) = 2
    /\ stdout[2].arg = 2

=============================================================================
